---- MODULE Spec2Model ----
(* A model of the reactive data providers of src/index.ts: TradesData,      *)
(* PositionsData, MarketData and PnlData, wired by per-sender signals, and  *)
(* the binding of a provider to a Bokeh data source (set_target).           *)
(* One action is one run-to-completion JavaScript task: a call of           *)
(* initialise(), one firing of a timer with its whole synchronous cascade,  *)
(* or one call of set_target().                                             *)
EXTENDS Integers, Sequences, FiniteSets, TLC

VARIABLES
  log,          \* tradesFeed._data: the trade log
  positions,    \* posFeed._data: instrument -> net quantity, in insertion order
  market,       \* marketDataFeed._data: instrument -> price, in insertion order
  pos,          \* pnlFeed._pos: what _positionsUpdate stored
  mkt,          \* pnlFeed._mkt: what _marketDataUpdate stored
  pnl,          \* pnlFeed._pnl: the current P&L list
  data_source,  \* node -> its _data_source (NULL when unbound)
  sinks,        \* data source -> its 'data': column -> buffered values
  events,       \* what the last task did, in program order
  lastEmit,     \* node -> <<the payload it emitted last, as it was then>>, or <<>>
  emitted,      \* every trade emitted by tradesFeed, in order
  call,         \* the last task: operation, node, argument, Bokeh.index then
  nInit,        \* calls of initialise() so far
  nTicks,       \* timer firings so far
  nSet,         \* calls of set_target() so far
  startup       \* <<Bokeh.index when main ran to its end>>, or <<>>

vars == <<log, positions, market, pos, mkt, pnl, data_source, sinks,
          events, lastEmit, emitted, call, nInit, nTicks, nSet, startup>>

NULL == "null"

\* ---------------------------------------------------------------- bounds
MaxInit == 2
MaxTicks == 2
MaxSetTarget == 2

\* Math.random() is sampled at the multiples of 1/10 and named by its
\* numerator u in 0..9; each call site draws from its own set of samples.
TraderDraws == {0}
InstrumentDraws == {0, 2}
QuantityDraws == {0, 4}
PriceDraws == {3}
DirectionDraws == {0, 5}
BookDraws == {0}
ItemDraws == {0, 2}
ValueDraws == {0, 5}

\* The six draws of one trade, and the two of one market update.
TradeDraws ==
  [trader : TraderDraws, instrument : InstrumentDraws, quantity : QuantityDraws,
   price : PriceDraws, direction : DirectionDraws, book : BookDraws]

MarketDraws == [item : ItemDraws, value : ValueDraws]

\* One trade (Bob buys 40 MSFT) and one market update (MSFT moves by 3): what
\* the ticks draw where the bindings to the sinks vary.
TradeSamples ==
  {[trader |-> 0, instrument |-> 0, quantity |-> 4, price |-> 3, direction |-> 0, book |-> 0]}

MarketSamples == {[item |-> 0, value |-> 8]}

\* ------------------------------------------------------- program constants
INSTS == <<"MSFT", "AAPL", "IBM", "BHP", "JPM", "BAML">>
traders == <<"Bob", "Alice", "Geoff", "Gertrude">>
directions == <<"Buy", "Sell">>
books == <<"A", "B", "C", "D">>
PadArrayLength == 4
History == 100
QuantityScale == 100
PriceScale == 10

Nodes == {"tradesFeed", "posFeed", "marketDataFeed", "pnlFeed"}

\* ------------------------------------------------- JavaScript object helpers
\* An object used as a map is a sequence of <<key, value>> in insertion order
\* (the order for..in visits string keys).
MapKeys(m) == {m[i][1] : i \in DOMAIN m}

MapHas(m, k) == \E i \in DOMAIN m : m[i][1] = k

MapGet(m, k) == m[CHOOSE i \in DOMAIN m : m[i][1] = k][2]

MapPut(m, k, v) ==
  IF MapHas(m, k)
  THEN [i \in DOMAIN m |-> IF m[i][1] = k THEN <<k, v>> ELSE m[i]]
  ELSE Append(m, <<k, v>>)

\* The own enumerable keys of an array: "0", "1", ...
ArrayKeys(a) == {ToString(i - 1) : i \in DOMAIN a}

\* s.slice(-n) of a string
SliceLast(s, n) == IF Len(s) <= n THEN s ELSE SubSeq(s, Len(s) - n + 1, Len(s))

\* new Array(n).join(sep): n - 1 separators
RECURSIVE ArrayJoin(_, _)
ArrayJoin(n, sep) == IF n <= 1 THEN "" ELSE sep \o ArrayJoin(n - 1, sep)

\* Math.floor(Math.random() * n), Math.random() being u / 10
RandomBelow(u, n) == (u * n) \div 10

sample(items, u) == items[RandomBelow(u, Len(items)) + 1]

\* ------------------------------------------------------------ the world
\* The page around the providers: two plots registered or not in Bokeh.index,
\* two column data sources, and an object that is neither.
Plots == {"plotA", "plotB"}

DataSources == {"ds1", "ds2"}

Handles == {NULL, "junk"} \cup Plots \cup DataSources

\* ds.model && ds.model.type == 'Plot'
IsPlot(h) == h \in Plots

\* ds.stream
HasStream(h) == h \in DataSources

\* plot.renderers, in for..in order; data_source is what mget('data_source')
\* returns (NULL for a renderer without one, such as an axis).
Renderers(h) ==
  IF h = "plotA"
  THEN <<[mget |-> FALSE, data_source |-> NULL],
         [mget |-> TRUE, data_source |-> NULL],
         [mget |-> TRUE, data_source |-> "ds1"]>>
  ELSE <<[mget |-> TRUE, data_source |-> NULL]>>

\* The own properties of a data source object, and the columns of its data.
OwnProperties(ds) ==
  IF ds = "ds1" THEN {"id", "attributes"} ELSE {"id", "attributes", "MSFT", "0"}

Columns(ds) ==
  IF ds = "ds1" THEN {"t", "ident", "instrument", "quantity", "MSFT", "0"}
  ELSE {"t", "MSFT", "AAPL", "0", "price"}

\* The state the operations read and write, as one record. index is
\* Bokeh.index, which the page owns: an input of set_target.
World ==
  [log |-> log, positions |-> positions, market |-> market, pos |-> pos,
   mkt |-> mkt, pnl |-> pnl, data_source |-> data_source, sinks |-> sinks,
   index |-> {}, events |-> <<>>, lastEmit |-> lastEmit,
   emitted |-> emitted]

\* this._data of a node. PnlData never assigns the _data it inherits.
DataOf(w, node) ==
  CASE node = "tradesFeed" -> w.log
    [] node = "posFeed" -> w.positions
    [] node = "marketDataFeed" -> w.market
    [] node = "pnlFeed" -> <<>>

\* for (var key in this._data)
DataKeys(w, node) ==
  IF node \in {"posFeed", "marketDataFeed"}
  THEN MapKeys(DataOf(w, node))
  ELSE ArrayKeys(DataOf(w, node))

\* An emitted value: kind says how its keys are read, ref names the live
\* aggregate it is (NULL for an object of its own), val is its content now.
Payload(kind, ref, val) == [kind |-> kind, ref |-> ref, val |-> val]

PayloadKeys(p) ==
  CASE p.kind = "object" -> DOMAIN p.val
    [] p.kind = "map" -> MapKeys(p.val)
    [] p.kind = "list" -> ArrayKeys(p.val)

PayloadGet(p, k) ==
  CASE p.kind = "object" -> p.val[k]
    [] p.kind = "map" -> MapGet(p.val, k)
    [] p.kind = "list" -> p.val[CHOOSE i \in DOMAIN p.val : ToString(i - 1) = k]

\* What a field holding a payload reads as: the live aggregate when the
\* payload is a reference to one.
Stored(w, p) == IF p.ref = NULL THEN p.val ELSE DataOf(w, p.ref)

\* Storing a reference stores no content.
Reference(p) == IF p.ref = NULL THEN p ELSE Payload(p.kind, p.ref, <<>>)

Event(type, node, what) == [type |-> type, node |-> node, what |-> what]

\* ------------------------------------------------------------- the signal
\* The connections made by the constructors run in main, per sender, in
\* connection order.
\* As Connections, the signal not keeping the senders apart for the sink
\* forwarders: the forwarder of posFeed is run at marketDataFeed's emissions
\* too.
Connections_CrossForward ==
  [n \in Nodes |->
     <<[callback |-> "_update_target_data_source", thisArg |-> n]>> \o
     (CASE n = "tradesFeed" -> <<[callback |-> "_newTrade", thisArg |-> "posFeed"]>>
        [] n = "posFeed" -> <<[callback |-> "_positionsUpdate", thisArg |-> "pnlFeed"]>>
        [] n = "marketDataFeed" ->
             <<[callback |-> "_update_target_data_source", thisArg |-> "posFeed"],
               [callback |-> "_marketDataUpdate", thisArg |-> "pnlFeed"]>>
        [] n = "pnlFeed" -> <<>>)]

Connections ==
  [n \in Nodes |->
     <<[callback |-> "_update_target_data_source", thisArg |-> n]>> \o
     (CASE n = "tradesFeed" -> <<[callback |-> "_newTrade", thisArg |-> "posFeed"]>>
        [] n = "posFeed" -> <<[callback |-> "_positionsUpdate", thisArg |-> "pnlFeed"]>>
        [] n = "marketDataFeed" -> <<[callback |-> "_marketDataUpdate", thisArg |-> "pnlFeed"]>>
        [] n = "pnlFeed" -> <<>>)]

RECURSIVE emit(_, _, _)

\* ---------------------------------------------------------- the data sink
\* data_source.stream(new_data, rollover): every column of new_data gets its
\* value appended, and keeps its last rollover values.
stream(data, new_data, rollover) ==
  [c \in DOMAIN data \cup DOMAIN new_data |->
     IF c \in DOMAIN new_data
     THEN LET grown == (IF c \in DOMAIN data THEN data[c] ELSE <<>>) \o <<new_data[c]>>
          IN IF Len(grown) <= rollover THEN grown
             ELSE SubSeq(grown, Len(grown) - rollover + 1, Len(grown))
     ELSE data[c]]

\* As update_target_data_source, every key of the payload copied.
update_target_data_source_AllKeys(w, this, data) ==
  IF w.data_source[this] # NULL
  THEN LET ds == w.data_source[this]
           copied == PayloadKeys(data)
           data_copy == [key \in {"t"} \cup copied |->
                           IF key \in copied THEN PayloadGet(data, key) ELSE "Date.now()"]
       IN [w EXCEPT !.sinks[ds] = stream(@, data_copy, History),
                    !.events = Append(@, Event("stream", this, ds))]
  ELSE w

update_target_data_source(w, this, data) ==
  IF w.data_source[this] # NULL
  THEN LET ds == w.data_source[this]
           data_source_data == w.sinks[ds]
           copied == {key \in PayloadKeys(data) : key \in DOMAIN data_source_data}
           data_copy == [key \in {"t"} \cup copied |->
                           IF key \in copied THEN PayloadGet(data, key) ELSE "Date.now()"]
       IN [w EXCEPT !.sinks[ds] = stream(@, data_copy, History),
                    !.events = Append(@, Event("stream", this, ds))]
  ELSE w

\* ----------------------------------------------------------------- PnlData
RECURSIVE recalculateList(_, _)
\* As recalculateList, the test being if (mkt): a price of 0 is skipped.
recalculateList_Truthy(p, m) ==
  IF p = <<>> THEN <<>>
  ELSE LET inst == Head(p)[1]
       IN (IF MapHas(m, inst) /\ MapGet(m, inst) # 0
           THEN <<<<inst, Head(p)[2] * MapGet(m, inst)>>>> ELSE <<>>)
          \o recalculateList(Tail(p), m)

\* As recalculateList, without the test: an instrument the market map lacks
\* gets a pair too (0 standing for the NaN of q * undefined).
recalculateList_NoTest(p, m) ==
  IF p = <<>> THEN <<>>
  ELSE LET inst == Head(p)[1]
       IN <<<<inst, IF MapHas(m, inst) THEN Head(p)[2] * MapGet(m, inst) ELSE 0>>>>
          \o recalculateList(Tail(p), m)

\* As recalculateList, the loop being over the market map: an instrument
\* of the market map gets a pair, with 0 for a position not held.
recalculateList_OverMarket(p, m) ==
  IF m = <<>> THEN <<>>
  ELSE LET inst == Head(m)[1]
       IN <<<<inst, (IF MapHas(p, inst) THEN MapGet(p, inst) ELSE 0) * Head(m)[2]>>>>
          \o recalculateList(p, Tail(m))

recalculateList(p, m) ==
  IF p = <<>> THEN <<>>
  ELSE LET inst == Head(p)[1]
       IN (IF MapHas(m, inst) THEN <<<<inst, Head(p)[2] * MapGet(m, inst)>>>> ELSE <<>>)
          \o recalculateList(Tail(p), m)

\* As recalculate, without this._pnl = []: the pairs are pushed after the
\* ones of the previous list.
recalculate_Accumulates(w) ==
  LET list == w.pnl \o recalculateList(Stored(w, w.pos), Stored(w, w.mkt))
  IN emit([w EXCEPT !.pnl = list], "pnlFeed", Payload("list", NULL, list))

recalculate(w) ==
  LET list == recalculateList(Stored(w, w.pos), Stored(w, w.mkt))
  IN emit([w EXCEPT !.pnl = list], "pnlFeed", Payload("list", NULL, list))

positionsUpdate(w, value) == recalculate([w EXCEPT !.pos = Reference(value)])

\* As marketDataUpdate, the map stored and the recompute forgotten.
marketDataUpdate_NoRecalc(w, value) == [w EXCEPT !.mkt = Reference(value)]

marketDataUpdate(w, value) == recalculate([w EXCEPT !.mkt = Reference(value)])

\* ----------------------------------------------------------- PositionsData
\* As newTradeData, a Sell added like a Buy.
newTradeData_SellAdds(data, value) ==
  LET inst == value.instrument
      d0 == IF ~MapHas(data, inst) THEN MapPut(data, inst, 0) ELSE data
  IN MapPut(d0, inst, MapGet(d0, inst) + value.quantity)

\* As newTradeData, a Sell setting the position to the quantity sold
\* instead of subtracting it.
newTradeData_SellSets(data, value) ==
  LET inst == value.instrument
      d0 == IF ~MapHas(data, inst) THEN MapPut(data, inst, 0) ELSE data
  IN IF value.direction = "Buy"
     THEN MapPut(d0, inst, MapGet(d0, inst) + value.quantity)
     ELSE MapPut(d0, inst, 0 - value.quantity)

newTradeData(data, value) ==
  LET inst == value.instrument
      d0 == IF ~MapHas(data, inst) THEN MapPut(data, inst, 0) ELSE data
  IN IF value.direction = "Buy"
     THEN MapPut(d0, inst, MapGet(d0, inst) + value.quantity)
     ELSE MapPut(d0, inst, MapGet(d0, inst) - value.quantity)

\* As newTrade, the emission forgotten.
newTrade_NoEmit(w, value) ==
  [w EXCEPT !.positions = newTradeData(w.positions, value.val)]

newTrade(w, value) ==
  LET data == newTradeData(w.positions, value.val)
  IN emit([w EXCEPT !.positions = data], "posFeed", Payload("map", "posFeed", data))

\* ------------------------------------------------------- Signal.emit
invoke(w, conn, payload) ==
  CASE conn.callback = "_update_target_data_source" ->
         update_target_data_source(w, conn.thisArg, payload)
    [] conn.callback = "_newTrade" -> newTrade(w, payload)
    [] conn.callback = "_positionsUpdate" -> positionsUpdate(w, payload)
    [] conn.callback = "_marketDataUpdate" -> marketDataUpdate(w, payload)

RECURSIVE deliver(_, _, _)
deliver(w, conns, payload) ==
  IF conns = <<>> THEN w
  ELSE deliver(invoke(w, Head(conns), payload), Tail(conns), payload)

emit(w, sender, payload) ==
  deliver([w EXCEPT !.events = Append(@, Event("emit", sender, payload.val)),
                    !.lastEmit[sender] = <<payload.val>>,
                    !.emitted = IF sender = "tradesFeed" THEN Append(@, payload.val) ELSE @],
          Connections[sender], payload)

\* -------------------------------------------------------------- TradesData
newId(data) ==
  LET pad == ArrayJoin(PadArrayLength, "0")
  IN "TradeID_" \o SliceLast(pad \o ToString(Len(data)), Len(pad))

\* r: the six Math.random() results of one trade
TradesData_generateUpdates(w, r) ==
  LET trade == [ident |-> newId(w.log),
                trader |-> sample(traders, r.trader),
                instrument |-> sample(INSTS, r.instrument),
                quantity |-> RandomBelow(r.quantity, QuantityScale),
                price |-> RandomBelow(r.price, PriceScale),
                direction |-> sample(directions, r.direction),
                book |-> sample(books, r.book)]
  IN emit([w EXCEPT !.log = Append(@, trade),
                    !.events = Append(@, Event("push", "tradesFeed", trade))],
          "tradesFeed", Payload("object", NULL, trade))

\* As initialiseData, written this._data.push(this._generateUpdates()).
initialiseData_Push(w, r) ==
  LET w1 == TradesData_generateUpdates(w, r)
  IN [w1 EXCEPT !.log = Append(@, w1.log[Len(w1.log)])]

\* this._data = [ this._generateUpdates() ]: the returned trade is the one
\* just pushed.
initialiseData(w, r) ==
  LET w1 == TradesData_generateUpdates(w, r)
  IN [w1 EXCEPT !.log = <<w1.log[Len(w1.log)]>>]

initialise(w, r) == initialiseData(w, r)

\* -------------------------------------------------------------- MarketData
MarketData_generateUpdates(w, uItem, uValue) ==
  LET item == sample(INSTS, uItem)
      value == ((uValue * 10) \div 10) - 5
      d0 == IF ~MapHas(w.market, item) THEN MapPut(w.market, item, 0) ELSE w.market
      data == MapPut(d0, item, MapGet(d0, item) + value)
  IN emit([w EXCEPT !.market = data], "marketDataFeed",
          Payload("map", "marketDataFeed", data))

\* ------------------------------------------------ BaseDataProvider.set_target
throw(w, this, message) == [w EXCEPT !.events = Append(@, Event("throw", this, message))]

\* for (var key in this._data) if (this._data_source.hasOwnProperty(key))
\*   this._data_source.get('data')[key] = []
resetData(w, this) ==
  IF w.data_source[this] # NULL
  THEN LET ds == w.data_source[this]
           keys == {key \in DataKeys(w, this) : key \in OwnProperties(ds)}
       IN [w EXCEPT !.sinks[ds] =
             [c \in DOMAIN @ \cup keys |-> IF c \in keys THEN <<>> ELSE @[c]]]
  ELSE w

\* The renderers that pass r && r.mget && r.mget('data_source')
WithDataSource(rs) == {i \in DOMAIN rs : rs[i].mget /\ rs[i].data_source # NULL}

RECURSIVE set_target(_, _, _)
\* As set_target, the test on Bokeh.index being plot_keys.length >= 1.
set_target_AnyPlot(w, this, ds) ==
  IF ds = NULL
  THEN LET plot_keys == w.index
       IN IF Cardinality(plot_keys) >= 1
          THEN set_target(w, this, CHOOSE plot \in plot_keys : TRUE)
          ELSE throw(w, this, "set_target(null) only works if there is exactly one Bokeh plot")
  ELSE IF IsPlot(ds)
  THEN LET found == WithDataSource(Renderers(ds))
       IN IF found # {}
          THEN set_target(w, this,
                 Renderers(ds)[CHOOSE i \in found : \A j \in found : i <= j].data_source)
          ELSE w
  ELSE IF HasStream(ds)
  THEN resetData([resetData(w, this) EXCEPT !.data_source[this] = ds], this)
  ELSE throw(w, this, "Invalid data source given in set_target()")

set_target(w, this, ds) ==
  IF ds = NULL
  THEN LET plot_keys == w.index
       IN IF Cardinality(plot_keys) = 1
          THEN set_target(w, this, CHOOSE plot \in plot_keys : TRUE)
          ELSE throw(w, this, "set_target(null) only works if there is exactly one Bokeh plot")
  ELSE IF IsPlot(ds)
  THEN LET found == WithDataSource(Renderers(ds))
       IN IF found # {}
          THEN set_target(w, this,
                 Renderers(ds)[CHOOSE i \in found : \A j \in found : i <= j].data_source)
          ELSE w
  ELSE IF HasStream(ds)
  THEN resetData([resetData(w, this) EXCEPT !.data_source[this] = ds], this)
  ELSE throw(w, this, "Invalid data source given in set_target()")

\* --------------------------------------------------------------------- main
\* As main, the target set on the trade feed.
main_BindsTrades(w, r, plots) ==
  set_target([initialise(w, r) EXCEPT !.index = plots], "tradesFeed", NULL)

\* The end of main, after the constructors: tradesFeed.initialise(), then
\* posFeed.set_target(null), plots being Bokeh.index.
main(w, r, plots) ==
  set_target([initialise(w, r) EXCEPT !.index = plots], "posFeed", NULL)

\* ------------------------------------------------------------------ actions
Commit(w) ==
  /\ log' = w.log
  /\ positions' = w.positions
  /\ market' = w.market
  /\ pos' = w.pos
  /\ mkt' = w.mkt
  /\ pnl' = w.pnl
  /\ data_source' = w.data_source
  /\ sinks' = w.sinks
  /\ events' = w.events
  /\ lastEmit' = w.lastEmit
  /\ emitted' = w.emitted

\* The state after main has run its four constructors (lines 291-294).
Init ==
  /\ log = <<>>
  /\ positions = <<>>
  /\ market = <<>>
  /\ pos = Payload("list", NULL, <<>>)
  /\ mkt = Payload("list", NULL, <<>>)
  /\ pnl = <<>>
  /\ data_source = [n \in Nodes |-> NULL]
  /\ sinks = [ds \in DataSources |-> [c \in Columns(ds) |-> <<>>]]
  /\ events = <<>>
  /\ lastEmit = [n \in Nodes |-> <<>>]
  /\ emitted = <<>>
  /\ call = [op |-> "main", node |-> NULL, arg |-> NULL, index |-> {}]
  /\ nInit = 0
  /\ nTicks = 0
  /\ nSet = 0
  /\ startup = <<>>

\* tradesFeed.initialise(): the first trade, and the 2000 ms timer is set.
InitialiseWith(draws) ==
  /\ nInit < MaxInit
  /\ \E r \in draws : Commit(initialise(World, r))
  /\ call' = [op |-> "initialise", node |-> "tradesFeed", arg |-> NULL, index |-> {}]
  /\ nInit' = nInit + 1
  /\ UNCHANGED <<nTicks, nSet, startup>>

\* A firing of a timer set by initialise().
TradeTickWith(draws) ==
  /\ nInit >= 1
  /\ nTicks < MaxTicks
  /\ \E r \in draws : Commit(TradesData_generateUpdates(World, r))
  /\ call' = [op |-> "tradeTick", node |-> "tradesFeed", arg |-> NULL, index |-> {}]
  /\ nTicks' = nTicks + 1
  /\ UNCHANGED <<nInit, nSet, startup>>

\* A firing of the 4000 ms timer set by MarketData's constructor.
MarketTickWith(draws) ==
  /\ nTicks < MaxTicks
  /\ \E r \in draws : Commit(MarketData_generateUpdates(World, r.item, r.value))
  /\ call' = [op |-> "marketTick", node |-> "marketDataFeed", arg |-> NULL, index |-> {}]
  /\ nTicks' = nTicks + 1
  /\ UNCHANGED <<nInit, nSet, startup>>

\* node.set_target(ds), for any provider and any handle, the page having
\* registered any of the plots in Bokeh.index by then.
SetTarget ==
  /\ nSet < MaxSetTarget
  /\ \E node \in Nodes, ds \in Handles, plots \in SUBSET Plots :
       /\ ds # NULL => plots = {}
       /\ Commit(set_target([World EXCEPT !.index = plots], node, ds))
       /\ call' = [op |-> "set_target", node |-> node, arg |-> ds, index |-> plots]
  /\ nSet' = nSet + 1
  /\ UNCHANGED <<nInit, nTicks, startup>>

\* window.onload: main runs to its end, before any timer fires and before any
\* other call.
Main ==
  /\ call.op = "main"
  /\ nInit < MaxInit
  /\ nSet < MaxSetTarget
  /\ \E r \in TradeSamples, plots \in SUBSET Plots :
       /\ Commit(main(World, r, plots))
       /\ call' = [op |-> "startup", node |-> "posFeed", arg |-> NULL, index |-> plots]
       /\ startup' = <<plots>>
  /\ nInit' = nInit + 1
  /\ nSet' = nSet + 1
  /\ UNCHANGED nTicks

\* The providers and their sinks: every operation, the random draws of a tick
\* taken from a few samples.
Initialise == InitialiseWith(TradeSamples)

TradeTick == TradeTickWith(TradeSamples)

MarketTick == MarketTickWith(MarketSamples)

Next == Main \/ Initialise \/ TradeTick \/ MarketTick \/ SetTarget

Spec == Init /\ [][Next]_vars

\* The first trade of an initialise(), where the ticks vary: a purchase or a
\* sale of 40 of either instrument.
FirstTradeDraws == {r \in TradeDraws : r.quantity > 0}

\* The dataflow alone, no provider bound to a sink: the random draws of a tick
\* range over every combination of the draws of each call site.
FlowInitialise == InitialiseWith(FirstTradeDraws)

FlowTradeTick == TradeTickWith(TradeDraws)

FlowMarketTick == MarketTickWith(MarketDraws)

FlowNext == FlowInitialise \/ FlowTradeTick \/ FlowMarketTick

Dataflow == Init /\ [][FlowNext]_vars

\* The trade stream alone, for what PositionsData makes of its order: each
\* trade is a purchase of 40 MSFT, a sale of 40 MSFT or a purchase of 40 AAPL.
OrderSamples ==
  {[trader |-> 0, instrument |-> 0, quantity |-> 4, price |-> 3, direction |-> 0, book |-> 0],
   [trader |-> 0, instrument |-> 0, quantity |-> 4, price |-> 3, direction |-> 5, book |-> 0],
   [trader |-> 0, instrument |-> 2, quantity |-> 4, price |-> 3, direction |-> 0, book |-> 0]}

OrderInitialise == InitialiseWith(OrderSamples)

OrderTradeTick == TradeTickWith(OrderSamples)

OrderNext == OrderInitialise \/ OrderTradeTick

TradeStream == Init /\ [][OrderNext]_vars

\* ================================================================== claims
Instruments == {INSTS[i] : i \in DOMAIN INSTS}

RECURSIVE NetQuantity(_, _)
\* The sum of the Buy quantities minus the sum of the Sell quantities of the
\* trades of l on instrument i.
NetQuantity(l, i) ==
  IF l = <<>> THEN 0
  ELSE (IF Head(l).instrument # i THEN 0
        ELSE IF Head(l).direction = "Buy" THEN Head(l).quantity
        ELSE 0 - Head(l).quantity)
       + NetQuantity(Tail(l), i)

TradesOn(l, i) == {k \in DOMAIN l : l[k].instrument = i}

IsPrefix(a, b) == Len(a) <= Len(b) /\ SubSeq(b, 1, Len(a)) = a

\* The pushes and emissions of the last task, in order, as <<type, node>>.
Flow ==
  LET kept == SelectSeq(events, LAMBDA e : e.type \in {"push", "emit"})
  IN [k \in DOMAIN kept |-> <<kept[k].type, kept[k].node>>]

EmitsOf(es, node) == SelectSeq(es, LAMBDA e : e.type = "emit" /\ e.node = node)

\* C1: with initialise() called once, the position map has an entry for an
\* instrument exactly when the log holds a trade on it, and the entry is the
\* Buy quantities minus the Sell quantities of those trades.
C1_PositionsAreNetOfLog ==
  nInit = 1 =>
    \A i \in Instruments :
      /\ MapHas(positions, i) <=> TradesOn(log, i) # {}
      /\ MapHas(positions, i) => MapGet(positions, i) = NetQuantity(log, i)

C1_Witness ==
  /\ nInit = 1
  /\ market # <<>>
  /\ \E i \in Instruments :
       /\ \E k \in TradesOn(log, i) : log[k].direction = "Buy" /\ log[k].quantity > 0
       /\ \E k \in TradesOn(log, i) : log[k].direction = "Sell" /\ log[k].quantity > 0
  /\ \E i \in Instruments : TradesOn(log, i) = {}

\* C2: the P&L list PnlData emitted last is its current list, and holds
\* exactly one pair <<i, q * p>> for each instrument i that its stored position
\* map (quantity q) and its stored market map (price p) both have, zero
\* quantities and prices included, and nothing else.
C2_PnlIsPositionsTimesMarket ==
  lastEmit["pnlFeed"] # <<>> =>
    LET list == lastEmit["pnlFeed"][1]
        p == Stored(World, pos)
        m == Stored(World, mkt)
        both == MapKeys(p) \cap MapKeys(m)
    IN /\ list = pnl
       /\ \A i \in both :
            /\ Cardinality({k \in DOMAIN list : list[k][1] = i}) = 1
            /\ \E k \in DOMAIN list : list[k] = <<i, MapGet(p, i) * MapGet(m, i)>>
       /\ \A k \in DOMAIN list : list[k][1] \in both

C2_Witness ==
  /\ lastEmit["pnlFeed"] # <<>>
  /\ \E k \in DOMAIN pnl :
       /\ MapGet(Stored(World, mkt), pnl[k][1]) = 0
       /\ MapGet(Stored(World, pos), pnl[k][1]) # 0
  /\ MapKeys(Stored(World, pos)) \ MapKeys(Stored(World, mkt)) # {}

\* C3: a trade tick (the one of initialise() included) is, in this order, the
\* push of the trade on the log, its emission by TradesData, one emission by
\* PositionsData of its updated map and one emission by PnlData of its new
\* list; a market tick is one emission by MarketData then one by PnlData; and
\* a task that is not a tick emits nothing.
C3_CascadeOrder ==
  /\ call.op \in {"initialise", "tradeTick"} =>
       /\ Flow = << <<"push", "tradesFeed">>, <<"emit", "tradesFeed">>,
                    <<"emit", "posFeed">>, <<"emit", "pnlFeed">> >>
       /\ EmitsOf(events, "tradesFeed")[1].what = log[Len(log)]
       /\ EmitsOf(events, "posFeed")[1].what = positions
       /\ EmitsOf(events, "pnlFeed")[1].what = pnl
  /\ call.op = "marketTick" =>
       /\ Flow = << <<"emit", "marketDataFeed">>, <<"emit", "pnlFeed">> >>
       /\ EmitsOf(events, "marketDataFeed")[1].what = market
       /\ EmitsOf(events, "pnlFeed")[1].what = pnl
  /\ call.op \in {"main", "set_target"} => Flow = <<>>

C3_Witness ==
  /\ call.op = "tradeTick"
  /\ Len(log) >= 2
  /\ market # <<>>
  /\ pnl # <<>>
  /\ \E n \in Nodes : data_source[n] # NULL

\* C4: every instrument named in the P&L list PnlData emitted last is a key
\* of the market map MarketData emitted last.
C4_PnlNamesAreInMarket ==
  lastEmit["pnlFeed"] # <<>> =>
    \A k \in DOMAIN lastEmit["pnlFeed"][1] :
      /\ lastEmit["marketDataFeed"] # <<>>
      /\ lastEmit["pnlFeed"][1][k][1] \in MapKeys(lastEmit["marketDataFeed"][1])

C4_Witness ==
  /\ lastEmit["pnlFeed"] # <<>>
  /\ lastEmit["pnlFeed"][1] # <<>>
  /\ call.op = "tradeTick"
  /\ MapKeys(positions) \ MapKeys(market) # {}

\* C5: no two trades TradesData ever emitted carry the same id.
C5_IdsAreUnique ==
  \A i, j \in DOMAIN emitted : i # j => emitted[i].ident # emitted[j].ident

\* C6: the trade log only grows: the log before a task is a prefix of the log
\* after it.
C6_LogIsAppendOnly == [][IsPrefix(log, log')]_vars

\* C7: no trade before initialise(); the first initialise() leaves a log of
\* exactly the one trade it emitted; every later timer tick appends one trade
\* to the log and emits it, and nothing else touches the log, so the log is the
\* sequence of the trades emitted.
C7_LogIsTheTradesEmitted ==
  [][/\ nInit' = 0 => log' = <<>> /\ emitted' = <<>>
     /\ nInit = 0 /\ nInit' = 1 => Len(log') = 1 /\ emitted' = log'
     /\ nInit = 1 /\ nInit' = 1 =>
          /\ emitted' = log'
          /\ IF call'.op = "tradeTick"
             THEN Len(log') = Len(log) + 1 /\ IsPrefix(log, log')
             ELSE log' = log]_vars

C7_Witness ==
  /\ nInit = 1
  /\ call.op = "tradeTick"
  /\ Len(log) = 3
  /\ emitted = log

\* C8: set_target(null) with no plot or several plots registered throws and
\* changes nothing: every binding and every sink buffer is as before, and
\* nothing is streamed.
C8_AmbiguousTargetChangesNothing ==
  [][(call'.op = "set_target" /\ call'.arg = NULL /\ Cardinality(call'.index) # 1) =>
       /\ \E k \in DOMAIN events' : events'[k].type = "throw"
       /\ \A k \in DOMAIN events' : events'[k].type # "stream"
       /\ data_source' = data_source
       /\ sinks' = sinks]_vars

C8_Witness ==
  /\ call.op = "set_target"
  /\ call.arg = NULL
  /\ Cardinality(call.index) = 2
  /\ data_source[call.node] # NULL
  /\ sinks[data_source[call.node]]["t"] # <<>>
  /\ \E k \in DOMAIN events : events[k].type = "throw"

\* C9: a call of set_target ends with a sink bound to the node or with an
\* error thrown.
C9_SetTargetBindsOrThrows ==
  call.op = "set_target" =>
    \/ data_source[call.node] # NULL
    \/ \E k \in DOMAIN events : events[k].type = "throw"

\* The keys of the payload of an emission event.
KeysEmitted(e) ==
  CASE e.node = "tradesFeed" -> DOMAIN e.what
    [] e.node \in {"posFeed", "marketDataFeed"} -> MapKeys(e.what)
    [] e.node = "pnlFeed" -> ArrayKeys(e.what)

\* The emissions among es that put a value in column c of sink ds, whose
\* columns were cols: those of the nodes bound to ds, for the timestamp, and
\* for a key of the payload that is a column.
Forwarded(es, bound, ds, cols, c) ==
  {k \in DOMAIN es :
     /\ es[k].type = "emit"
     /\ bound[es[k].node] = ds
     /\ c = "t" \/ (c \in cols /\ c \in KeysEmitted(es[k]))}

\* C10: a tick appends to each sink one record per emission of a node bound
\* to it, made of the timestamp and of the payload's keys that are columns of
\* the sink: each column grows by the emissions that carry it, no column
\* appears, and a sink no emitting node is bound to is left as it was.
C10_OneRecordPerEmission ==
  [][call'.op \in {"initialise", "tradeTick", "marketTick"} =>
       \A ds \in DataSources :
         /\ DOMAIN sinks'[ds] = DOMAIN sinks[ds]
         /\ \A c \in DOMAIN sinks[ds] :
              /\ IsPrefix(sinks[ds][c], sinks'[ds][c])
              /\ Len(sinks'[ds][c]) = Len(sinks[ds][c]) +
                   Cardinality(Forwarded(events', data_source, ds, DOMAIN sinks[ds], c))]_vars

C10_Witness ==
  /\ call.op = "tradeTick"
  /\ data_source["tradesFeed"] = "ds1"
  /\ data_source["posFeed"] = "ds2"
  /\ data_source["pnlFeed"] = NULL
  /\ Len(sinks["ds1"]["quantity"]) >= 1
  /\ Len(sinks["ds2"]["MSFT"]) >= 1
  /\ sinks["ds2"]["AAPL"] = <<>>
  /\ sinks["ds2"]["0"] = <<>>

\* The data source main's set_target(null) discovers: the one of the first
\* renderer that has one, of the one plot registered (NULL when there is none).
Discovered ==
  IF startup # <<>> /\ Cardinality(startup[1]) = 1
  THEN LET plot == CHOOSE q \in startup[1] : TRUE
           found == WithDataSource(Renderers(plot))
       IN IF found = {} THEN NULL
          ELSE Renderers(plot)[CHOOSE i \in found : \A j \in found : i <= j].data_source
  ELSE NULL

\* C11 as stated: after main, with one plot registered and its data source
\* discovered, the node bound to that data source is the trade feed.
C11_StartupBindsTrades ==
  (Discovered # NULL /\ nSet = 1) => data_source["tradesFeed"] = Discovered

\* C11, amended: after main, with one plot registered and its data source
\* discovered, the node bound to that data source is the positions feed and no
\* other node is bound; until set_target is called again, the sink gets one
\* record per position map emitted after main (one per trade generated after
\* main) and no record of a trade.
C11_StartupBindsPositions ==
  (Discovered # NULL /\ nSet = 1) =>
    /\ data_source = [n \in Nodes |-> IF n = "posFeed" THEN Discovered ELSE NULL]
    /\ Len(sinks[Discovered]["t"]) = Len(emitted) - 1
    /\ \A c \in DOMAIN sinks[Discovered] :
         /\ c \in MapKeys(positions) => Len(sinks[Discovered][c]) = Len(emitted) - 1
         /\ c \in {"ident", "instrument", "quantity"} => sinks[Discovered][c] = <<>>

C11_Witness ==
  /\ Discovered # NULL
  /\ nSet = 1
  /\ call.op = "tradeTick"
  /\ Len(emitted) >= 2
  /\ Len(sinks[Discovered]["MSFT"]) >= 1

\* C12: when a node bound to a sink is bound by set_target to a data source,
\* the new one replaces the old binding, and in the old and in the new sink
\* the buffer of every key of the node's aggregate is emptied, the other
\* buffers staying as they were.
C12_RebindResetsKnownKeys ==
  [][(call'.op = "set_target" /\ call'.arg \in DataSources
        /\ data_source[call'.node] # NULL) =>
       /\ data_source'[call'.node] = call'.arg
       /\ \A ds \in {data_source[call'.node], call'.arg} :
            \A c \in DOMAIN sinks[ds] :
              sinks'[ds][c] =
                IF c \in DataKeys(World, call'.node) THEN <<>> ELSE sinks[ds][c]]_vars

\* ----------------------------------------------------------------- rows
\* rows(): this._data.length. The arrays PositionsData and MarketData use as
\* maps get named properties only, which length does not count.
rows(w, node) ==
  IF node \in {"posFeed", "marketDataFeed"} THEN 0 ELSE Len(DataOf(w, node))

\* C13: in every reachable state rows() of a list-shaped node is the number
\* of entries of its aggregate: of TradesData the number of trades of its
\* log, of PnlData the length of its current P&L list.
C13_RowsCountEntries ==
  /\ rows(World, "tradesFeed") = Len(log)
  /\ rows(World, "pnlFeed") = Len(pnl)

\* C14: the id of a new trade is the tag TradeID_ followed by the length of
\* the log when it is assigned, padded with zeros to four digits: the first
\* trade generated from an empty log gets TradeID_0000, and every id has the
\* tag and four digits.
C14_IdsAreFourDigits ==
  /\ emitted # <<>> => emitted[1].ident = "TradeID_0000"
  /\ \A k \in DOMAIN emitted : Len(emitted[k].ident) = Len("TradeID_0000")

\* ------------------------------------------------------------- replaying
\* PositionsData fed the trades of a sequence, one _newTrade after the other.
RECURSIVE Replay(_, _)
Replay(data, trades) ==
  IF trades = <<>> THEN data
  ELSE Replay(newTradeData(data, Head(trades)), Tail(trades))

\* The trades emitted so far, in the order p.
Permuted(p) == [i \in 1..Len(emitted) |-> emitted[p[i]]]

\* The same keys with the same values, in whatever order the keys were added.
SameMap(a, b) ==
  /\ MapKeys(a) = MapKeys(b)
  /\ \A k \in MapKeys(a) : MapGet(a, k) = MapGet(b, k)

\* C15: PositionsData fed, from an empty map, the trades emitted so far in
\* any order ends with the position map it has now, which is the one of the
\* order they were emitted in: per instrument the sum of the signed
\* quantities.
C15_PositionsAreOrderIndependent ==
  \A p \in Permutations(1..Len(emitted)) :
    LET final == Replay(<<>>, Permuted(p))
    IN /\ SameMap(final, positions)
       /\ \A inst \in MapKeys(final) : MapGet(final, inst) = NetQuantity(emitted, inst)

\* Two orders of the trades emitted whose maps list the instruments in
\* different orders, with a purchase and a sale among the trades.
C15_Witness ==
  /\ \E i, j \in DOMAIN emitted :
       emitted[i].direction = "Buy" /\ emitted[j].direction = "Sell"
         /\ emitted[j].quantity > 0
  /\ \E p \in Permutations(1..Len(emitted)) : Replay(<<>>, Permuted(p)) # positions

\* ------------------------------------------------------------ idempotence
\* PnlData delivered the position map p, then the market map m.
Delivered(w, p, m) ==
  marketDataUpdate(positionsUpdate(w, Payload("map", NULL, p)), Payload("map", NULL, m))

Prefixes(s) == {SubSeq(s, 1, n) : n \in 0..Len(s)}

\* C16: PnlData delivered a position map and a market map, then the same two
\* maps again, emits the second time, at both deliveries, the list it emitted
\* at the end of the first: the same pairs in the same order, nothing of the
\* previous list kept.
C16_RecomputeIsIdempotent ==
  \A p \in Prefixes(positions), m \in Prefixes(market) :
    LET once == Delivered(World, p, m)
        half == positionsUpdate(once, Payload("map", NULL, p))
        twice == Delivered(once, p, m)
    IN /\ once.lastEmit["pnlFeed"] = <<once.pnl>>
       /\ half.lastEmit["pnlFeed"] = once.lastEmit["pnlFeed"]
       /\ twice.lastEmit["pnlFeed"] = once.lastEmit["pnlFeed"]
       /\ twice.pnl = once.pnl

\* PnlData has emitted a list of two pairs: delivering its two maps again, or
\* shorter ones, is a recompute with something to accumulate.
C16_Witness ==
  /\ Len(pnl) >= 2
  /\ lastEmit["pnlFeed"] = <<pnl>>
  /\ Delivered(World, positions, market).pnl = pnl

\* What a node has emitted last is nothing or the empty list.
EmittedNoPair(node) == lastEmit[node] \in {<<>>, <<<<>>>>}

\* C17: while the positions feed or the market feed has not emitted yet,
\* PnlData's list is empty and so is the list it emitted last; and whenever
\* the position map PnlData has stored is empty its list and the list it
\* emitted last are empty, whatever the market map holds. Its stored maps
\* start empty.
C17_EmptyPositionsGiveEmptyPnl ==
  /\ (lastEmit["posFeed"] = <<>> /\ lastEmit["marketDataFeed"] = <<>>) =>
       Stored(World, pos) = <<>> /\ Stored(World, mkt) = <<>>
  /\ (lastEmit["posFeed"] = <<>> \/ lastEmit["marketDataFeed"] = <<>>) =>
       pnl = <<>> /\ EmittedNoPair("pnlFeed")
  /\ Stored(World, pos) = <<>> =>
       /\ pnl = <<>> /\ EmittedNoPair("pnlFeed")
       /\ \A m \in Prefixes(market) : recalculateList(Stored(World, pos), m) = <<>>

\* PnlData has recomputed on a market update, the market map holding a
\* price, before the positions feed emitted anything: it emitted the empty
\* list.
C17_Witness ==
  /\ lastEmit["posFeed"] = <<>>
  /\ market # <<>>
  /\ Stored(World, mkt) = market
  /\ lastEmit["pnlFeed"] = <<<<>>>>

\* The recompute over the aggregates of the two upstream nodes: a pair for
\* each instrument of the position map that the market map prices, in the
\* order of the position map.
UpstreamPnl ==
  LET held == SelectSeq(positions, LAMBDA e : MapHas(market, e[1]))
  IN [k \in 1..Len(held) |-> <<held[k][1], held[k][2] * MapGet(market, held[k][1])>>]

\* C18: between ticks, PnlData's list is the recompute over the position map
\* PositionsData holds now and the market map MarketData holds now, after
\* any interleaving of trade ticks and market ticks.
C18_PnlNeverLags ==
  /\ pnl = UpstreamPnl
  /\ pnl = recalculateList(positions, market)

\* Trades and market updates have interleaved: a market tick is the last
\* one, the list has a pair of nonzero value, and an instrument held has no
\* price yet.
C18_Witness ==
  /\ call.op = "marketTick"
  /\ Len(emitted) >= 2
  /\ \E k \in DOMAIN pnl : pnl[k][2] # 0
  /\ Len(positions) > Len(pnl)

\* The sinks no node of ns is bound to.
SinksNotOf(ns) == {ds \in DataSources : \A n \in ns : data_source[n] # ds}

\* C19: a market tick leaves the trade log and the position map as they
\* were, makes neither tradesFeed nor posFeed emit, and runs the sink
\* forwarder of no node but marketDataFeed and pnlFeed, the two that emit;
\* a trade tick (the first trade of initialise included) leaves the market
\* map as it was and does not make marketDataFeed emit or forward; binding a
\* node to a sink changes no aggregate.
C19_OwnTickOnly ==
  [][/\ call'.op = "marketTick" =>
          /\ log' = log /\ positions' = positions /\ emitted' = emitted
          /\ lastEmit'["tradesFeed"] = lastEmit["tradesFeed"]
          /\ lastEmit'["posFeed"] = lastEmit["posFeed"]
          /\ \A k \in DOMAIN events' : events'[k].node \in {"marketDataFeed", "pnlFeed"}
          /\ \A ds \in SinksNotOf({"marketDataFeed", "pnlFeed"}) : sinks'[ds] = sinks[ds]
     /\ call'.op \in {"tradeTick", "initialise"} =>
          /\ market' = market
          /\ lastEmit'["marketDataFeed"] = lastEmit["marketDataFeed"]
          /\ \A k \in DOMAIN events' : events'[k].node # "marketDataFeed"
          /\ \A ds \in SinksNotOf({"tradesFeed", "posFeed", "pnlFeed"}) : sinks'[ds] = sinks[ds]
     /\ call'.op = "startup" =>
          /\ market' = market
          /\ \A k \in DOMAIN events' : events'[k].node # "marketDataFeed"
     /\ call'.op = "set_target" =>
          log' = log /\ positions' = positions /\ market' = market /\ pnl' = pnl]_vars

\* A market tick has run with trades in the log, PositionsData holding a
\* position and bound to a sink: its forwarder had a sink to write to.
C19_Witness ==
  /\ call.op = "marketTick"
  /\ log # <<>> /\ positions # <<>> /\ market # <<>>
  /\ data_source["posFeed"] # NULL
  /\ \E k \in DOMAIN events : events[k].type = "emit" /\ events[k].node = "pnlFeed"

\* C20: the maps PnlData has stored are snapshots: when PositionsData has
\* updated its map for a trade and not emitted yet (_newTrade before its
\* emit), the position map PnlData has stored reads as it did before, and
\* whatever MarketData's map becomes before its emission, the market map
\* PnlData has stored reads as it did before.
C20_StoredMapsAreSnapshots ==
  /\ \A k \in DOMAIN emitted :
       LET w == [World EXCEPT !.positions = newTradeData(positions, emitted[k])]
       IN Stored(w, w.pos) = Stored(World, pos)
  /\ \A m \in Prefixes(market) :
       LET w == [World EXCEPT !.market = m]
       IN Stored(w, w.mkt) = Stored(World, mkt)

====
